---- MODULE Spec2Model ----
(***************************************************************************)
(* The articles controller of the publishing API (src/src/lib/server.js,   *)
(* lines 99-741): bySlug, post, put, del, favorite.post, favorite.del over *)
(* the relational store (articles, tags, articles_tags, favorites).        *)
(* Every store round trip (an awaited knex statement) is one step, so that *)
(* concurrent requests interleave exactly at those suspension points.      *)
(***************************************************************************)
EXTENDS Integers, Sequences, FiniteSets, TLC

VARIABLES articles, tags, articles_tags, favorites, reqs

vars == <<articles, tags, articles_tags, favorites, reqs>>
store == <<articles, tags, articles_tags, favorites>>

(***************************************************************************)
(* Bounds of the model.                                                    *)
(***************************************************************************)
\* request slots of the full, concurrent specification
MaxReqs == 2
\* request slots of the favorite/unfavorite specifications
MaxFavReqs == 3

Slots == DOMAIN reqs

(***************************************************************************)
(* The users table (seeded, never written by this controller).             *)
(***************************************************************************)
Users == {"u1", "u2"}
\* ctx.state.user of a request without a session
Anonymous == ""
Username(u) == IF u = "u1" THEN "noname" ELSE "greg.p"
\* the followers table (written by the profiles controller only)
followers == {[user |-> "u1", follower |-> "u2"]}

(***************************************************************************)
(* uuid(): every call returns a fresh value.  A value is named by the      *)
(* request that drew it and the position of the call in that request.      *)
(***************************************************************************)
uuid(slot, n) == [by |-> slot, n |-> n]
NoId == [by |-> 0, n |-> 0]
SeedArticleId == [by |-> 0, n |-> 1]
SeedArticleId2 == [by |-> 0, n |-> 2]
SeedTagId == [by |-> 0, n |-> 3]
SeedRelationId == [by |-> 0, n |-> 4]

(***************************************************************************)
(* slug(title, {lower: true}): lower-cases, drops the characters that are  *)
(* not allowed in a URL, turns runs of white space into one "-" and trims. *)
(* Titles are sequences of characters.                                     *)
(***************************************************************************)
Lower(c) == IF c = "A" THEN "a" ELSE IF c = "B" THEN "b" ELSE c
Allowed(c) == c \in {"a", "b", " ", "-", "0", "1"}

RECURSIVE SlugChars(_, _)
\* acc is the slug so far; a separator is written only between two words
SlugChars(t, acc) ==
  IF t = <<>> THEN acc
  ELSE LET c == Lower(Head(t)) IN
       IF ~Allowed(c) THEN SlugChars(Tail(t), acc)
       ELSE IF c \in {" ", "-"}
            THEN IF acc = <<>> \/ acc[Len(acc)] = "-"
                 THEN SlugChars(Tail(t), acc)
                 ELSE SlugChars(Tail(t), Append(acc, "-"))
            ELSE SlugChars(Tail(t), Append(acc, c))

Trim(s) == IF s # <<>> /\ s[Len(s)] = "-" THEN SubSeq(s, 1, Len(s) - 1) ELSE s

slug(title) == Trim(SlugChars(title, <<>>))

\* uuid().substr(-6): the last six hexadecimal characters of a fresh uuid
SuffixLen == 6
Suffixes == {<<"0", "0", "0", "0", "0", "0">>, <<"0", "0", "0", "0", "0", "1">>}
WithSuffix(s, x) == s \o <<"-">> \o x

(***************************************************************************)
(* Store errors.  A unique violation is reported with errno 19 by one      *)
(* engine family and with code 23505 by the other.                         *)
(***************************************************************************)
SqliteConstraint == 19
PgUniqueViolation == 23505
NoError == [errno |-> 0, code |-> 0]
UniqueViolations == {[errno |-> SqliteConstraint, code |-> 0],
                     [errno |-> 0, code |-> PgUniqueViolation]}
\* store errors of another kind: a generic engine error, a foreign key violation
OtherErrors == {[errno |-> 1, code |-> 0], [errno |-> 0, code |-> 23503]}
\* parseInt(err.errno, 10) === 19 || parseInt(err.code, 10) === 23505
\* a catch block that takes every store error for a unique violation
IsAnyError(err) == TRUE

IsUniqueViolation(err) == err.errno = SqliteConstraint \/ err.code = PgUniqueViolation

(***************************************************************************)
(* Rows and request records.                                               *)
(***************************************************************************)
\* authorObj tells what the author property of the object holds: "id" the author's id
\* itself (as in the stored row), "params" the object ctx.params.author, "picked" an
\* object of its own with username, bio and image only
NoArticle == [id |-> NoId, slug |-> <<>>, title |-> <<>>, body |-> "", description |-> "",
              author |-> "", authorObj |-> "none", favorites_count |-> 0,
              favorited |-> FALSE, following |-> FALSE, tagList |-> {},
              tagObjects |-> <<>>]

NoFields == [has |-> {}, title |-> <<>>, body |-> "", description |-> "", tagList |-> <<>>,
             favoritesCount |-> 0]

\* ctx.params.author: the users row of the author, its id included
NoAuthor == [id |-> "", username |-> ""]

\* ctx.query of the list and feed reads; an empty set is a filter that is not given
NoLimit == -1
NoQuery == [author |-> {}, favorited |-> {}, tag |-> {}, offset |-> 0, limit |-> NoLimit]

\* what the count query resolves to: a value is undefined, a number or a decimal string
Undefined == [t |-> "undefined", v |-> 0]
Num(n) == [t |-> "number", v |-> n]
Str(n) == [t |-> "string", v |-> n]
NoCount == [count |-> Undefined, countStar |-> Undefined]

NoFailure == [status |-> 0, name |-> "", path |-> "", errors |-> "", err |-> NoError]

\* fault names the statement of the request that the store rejects with an error that is
\* not a unique violation ("none", "article" or "tag")
IdleReq == [kind |-> "none", user |-> Anonymous, slug |-> <<>>, fields |-> NoFields,
            fault |-> "none", pc |-> "idle", author |-> NoAuthor,
            article |-> NoArticle, tagsRelations |-> {}, newArticle |-> NoArticle,
            tagList |-> <<>>, tags |-> {},
            pending |-> {}, attempts |-> 0, i |-> 0, tagStmts |-> 0, writes |-> 0,
            query |-> NoQuery, followedIds |-> {}, rows |-> <<>>, countRes |-> NoCount,
            articles |-> <<>>, articlesCount |-> Undefined,
            body |-> NoArticle, failure |-> NoFailure]

Terminal(r) == reqs[r].pc \in {"done", "failed"}
InFlight(r) == reqs[r].pc \notin {"idle", "done", "failed"}
Quiescent == \A r \in Slots : ~InFlight(r)

Row(a) == [id |-> a.id, slug |-> a.slug, title |-> a.title, body |-> a.body,
           description |-> a.description, author |-> a.author,
           favorites_count |-> a.favorites_count]

Set(r, f) == reqs' = [reqs EXCEPT ![r] = f]

\* the request has ended: what was local to the handler is gone
Ended(q) ==
  [q EXCEPT !.tagsRelations = {}, !.tagList = <<>>, !.tags = {}, !.pending = {}, !.i = 0,
            !.followedIds = {}, !.rows = <<>>, !.countRes = NoCount,
            !.article = [NoArticle EXCEPT !.id = q.article.id],
            !.newArticle = IF q.pc = "failed" THEN @ ELSE NoArticle]

Fail(q, status, name, path, errors, err) ==
  Ended([q EXCEPT !.pc = "failed",
                  !.failure = [status |-> status, name |-> name, path |-> path,
                               errors |-> errors, err |-> err]])

Range(f) == {f[x] : x \in DOMAIN f}

RECURSIVE SetToSeq(_)
SetToSeq(S) == IF S = {} THEN <<>> ELSE LET x == CHOOSE x \in S : TRUE
                                        IN <<x>> \o SetToSeq(S \ {x})

(***************************************************************************)
(* The store's unique constraints: articles.slug and tags.name.            *)
(***************************************************************************)
SlugTaken(s, id) == \E a \in articles : a.slug = s /\ a.id # id
TagNameTaken(name) == \E t \in tags : t.name = name

(***************************************************************************)
(* The validation schemas: an article needs a title, a tag needs a name.   *)
(***************************************************************************)
ValidArticle(a) == a.title # <<>>
ValidTag(name) == name # ""

(***************************************************************************)
(* A request arrives.  Slots are taken in order, which only fixes the      *)
(* names of the requests, not the order of their steps.                    *)
(***************************************************************************)
ArriveFaulty(r, kind, user, sl, fields, fault) ==
  /\ reqs[r].pc = "idle"
  /\ \A p \in Slots : p < r => reqs[p].pc # "idle"
  /\ Set(r, [IdleReq EXCEPT !.kind = kind, !.user = user, !.slug = sl, !.fields = fields,
                            !.fault = fault,
                            !.pc = IF kind = "create" THEN "post" ELSE "bySlug"])
  /\ UNCHANGED store

\* a list or feed read arrives: no slug, no body, the filters in ctx.query
ArriveQuery(r, kind, user, query) ==
  /\ reqs[r].pc = "idle"
  /\ \A p \in Slots : p < r => reqs[p].pc # "idle"
  /\ Set(r, [IdleReq EXCEPT !.kind = kind, !.user = user, !.query = query,
                            !.pc = IF kind = "list" THEN "get" ELSE "feed_get"])
  /\ UNCHANGED store

\* a request that the store serves without any error of its own
Arrive(r, kind, user, sl, fields) == ArriveFaulty(r, kind, user, sl, fields, "none")

(***************************************************************************)
(* bySlug: the param middleware in front of every single-article route.    *)
(***************************************************************************)
\* const article = await db("articles").first().where({ slug }); ctx.assert(article, 404)
bySlug(r) ==
  LET q == reqs[r]
      found == {a \in articles : a.slug = q.slug}
  IN /\ q.pc = "bySlug"
     /\ IF found = {}
        THEN Set(r, Fail(q, 404, "NotFoundError", "", "", NoError))
        ELSE LET a == CHOOSE a \in found : TRUE
             IN Set(r, [q EXCEPT !.pc = "bySlug_tagsRelations",
                                 !.article = [NoArticle EXCEPT
                                    !.id = a.id, !.slug = a.slug, !.title = a.title,
                                    !.body = a.body, !.description = a.description,
                                    !.author = a.author,
                                    !.favorites_count = a.favorites_count]])
     /\ UNCHANGED store

\* const tagsRelations = await db("articles_tags").select().where({ article: article.id })
bySlug_tagsRelations(r) ==
  LET q == reqs[r]
      rel == {x \in articles_tags : x.article = q.article.id}
  IN /\ q.pc = "bySlug_tagsRelations"
     /\ Set(r, [q EXCEPT !.tagsRelations = rel,
                         !.pc = IF rel # {} THEN "bySlug_tagList" ELSE "bySlug_favorites"])
     /\ UNCHANGED store

\* tagList = await db("tags").select().whereIn("id", tagsRelations.map(r => r.tag))
bySlug_tagList(r) ==
  LET q == reqs[r]
      ids == {x.tag : x \in q.tagsRelations}
  IN /\ q.pc = "bySlug_tagList"
     /\ Set(r, [q EXCEPT !.article.tagList = {t.name : t \in {t \in tags : t.id \in ids}},
                         !.pc = "bySlug_favorites"])
     /\ UNCHANGED store

\* the follower row of any user taken for the viewer's
Following_ofAnyone(q) == \E f \in followers : f.user = q.article.author

\* author = await db("users").first(...).where({ id: article.author }) and, for a viewer
\* who is not the author, res = await db("followers").where({ user, follower }).select()
Following(q) ==
  LET res == {f \in followers : f.user = q.article.author /\ f.follower = q.user}
  IN q.user # Anonymous /\ Username(q.user) # Username(q.article.author) /\ res # {}

\* favorites = await db("favorites").where({ user: user.id, article: article.id }).select()
\* (the reads of users and followers before it are part of this step: this controller
\* never writes those tables, so their position among the other steps changes nothing)
bySlug_favorites(r) ==
  LET q == reqs[r]
      \* let favorites = []; if (user) favorites = await ...
      favs == IF q.user = Anonymous THEN {}
              ELSE {f \in favorites : f.user = q.user /\ f.article = q.article.id}
  IN /\ q.pc = "bySlug_favorites"
     /\ Set(r, [q EXCEPT !.author = [id |-> q.article.author,
                                     username |-> Username(q.article.author)],
                         !.article.authorObj = "params",
                         !.article.following = Following(q),
                         !.article.favorited = (favs # {}), !.pc = "next"])
     /\ UNCHANGED store

\* the id left on the author object
bySlug_afterNext_keepId(q) == q

\* await next(); delete ctx.params.author.id: runs when the handler has returned, and
\* before the response is written
bySlug_afterNext(q) == [q EXCEPT !.author.id = ""]

(***************************************************************************)
(* favorite.post and favorite.del                                          *)
(***************************************************************************)
\* a decrement that is written as an increment
IncrementOnly(id, n) ==
  {IF a.id = id THEN [a EXCEPT !.favorites_count = @ + 1] ELSE a : a \in articles}

\* db("articles").increment("favorites_count", n).where({ id })
Increment(id, n) ==
  {IF a.id = id THEN [a EXCEPT !.favorites_count = @ + n] ELSE a : a \in articles}

\* what follows the await Promise.all([...]) of favorite.post
favorite_post_resume(q) ==
  LET a == [q.article EXCEPT !.favorited = TRUE, !.favorites_count = @ + 1]
  IN Ended(bySlug_afterNext([q EXCEPT !.article = a, !.body = a, !.pc = "done"]))

\* what follows the await Promise.all([...]) of favorite.del
favorite_del_resume(q) ==
  LET a == [q.article EXCEPT !.favorited = FALSE, !.favorites_count = @ - 1]
  IN Ended(bySlug_afterNext([q EXCEPT !.article = a, !.body = a, !.pc = "done"]))

\* the early return left out
NeverFavorited(q) == FALSE

\* if (article.favorited) return the article as it is
AlreadyFavorited(q) == q.article.favorited

favorite_post(r) ==
  LET q == reqs[r]
  IN /\ q.pc = "next" /\ q.kind = "favorite"
     /\ IF AlreadyFavorited(q)
        THEN Set(r, Ended(bySlug_afterNext([q EXCEPT !.body = q.article, !.pc = "done"])))
        ELSE Set(r, [q EXCEPT !.pending = {"favorites.insert", "articles.increment"},
                              !.pc = "favorite_post"])
     /\ UNCHANGED store

favorite_post_insert(r) ==
  LET q == reqs[r]
      p == [q EXCEPT !.pending = @ \ {"favorites.insert"}, !.writes = @ + 1]
  IN /\ q.pc = "favorite_post" /\ "favorites.insert" \in q.pending
     /\ favorites' = favorites \cup
                       {[id |-> uuid(r, 1), user |-> q.user, article |-> q.article.id]}
     /\ Set(r, IF p.pending = {} THEN favorite_post_resume(p) ELSE p)
     /\ UNCHANGED <<articles, tags, articles_tags>>

favorite_post_increment(r) ==
  LET q == reqs[r]
      p == [q EXCEPT !.pending = @ \ {"articles.increment"}, !.writes = @ + 1]
  IN /\ q.pc = "favorite_post" /\ "articles.increment" \in q.pending
     /\ articles' = Increment(q.article.id, 1)
     /\ Set(r, IF p.pending = {} THEN favorite_post_resume(p) ELSE p)
     /\ UNCHANGED <<tags, articles_tags, favorites>>

\* if (!article.favorited) return the article as it is
NotFavorited(q) == ~q.article.favorited

favorite_del(r) ==
  LET q == reqs[r]
  IN /\ q.pc = "next" /\ q.kind = "unfavorite"
     /\ IF NotFavorited(q)
        THEN Set(r, Ended(bySlug_afterNext([q EXCEPT !.body = q.article, !.pc = "done"])))
        ELSE Set(r, [q EXCEPT !.pending = {"favorites.del", "articles.decrement"},
                              !.pc = "favorite_del"])
     /\ UNCHANGED store

favorite_del_delete(r) ==
  LET q == reqs[r]
      p == [q EXCEPT !.pending = @ \ {"favorites.del"}, !.writes = @ + 1]
  IN /\ q.pc = "favorite_del" /\ "favorites.del" \in q.pending
     /\ favorites' = {f \in favorites : ~(f.user = q.user /\ f.article = q.article.id)}
     /\ Set(r, IF p.pending = {} THEN favorite_del_resume(p) ELSE p)
     /\ UNCHANGED <<articles, tags, articles_tags>>

favorite_del_decrement(r) ==
  LET q == reqs[r]
      p == [q EXCEPT !.pending = @ \ {"articles.decrement"}, !.writes = @ + 1]
  IN /\ q.pc = "favorite_del" /\ "articles.decrement" \in q.pending
     /\ articles' = Increment(q.article.id, -1)
     /\ Set(r, IF p.pending = {} THEN favorite_del_resume(p) ELSE p)
     /\ UNCHANGED <<tags, articles_tags, favorites>>

(***************************************************************************)
(* Tag (re)association, as post (380-406) and put (514-539) both do it.    *)
(***************************************************************************)
TagNames == {"lorem", "dolor"}
TagIndex(name) == IF name = "lorem" THEN 1 ELSE 2
\* positions of the uuid() calls of one request
TagUuid(k) == 1 + k
RelationUuid(name) == 3 + TagIndex(name)

\* a unique violation on the tag name that fails the request
TagInsertCatch_rethrow(q, err) == Fail(q, 500, "Error", "", "", err)

\* catch (err) { ctx.assert(errno === 19 || code === 23505, err) }: absorbed
TagInsertCatch(q, err) ==
  IF IsUniqueViolation(err) THEN q ELSE Fail(q, 500, "Error", "", "", err)

\* for (i ...) try { await db("tags").insert(tags[i]) } catch ...
TagInsert(r, nextpc) ==
  LET q == reqs[r]
      name == q.tagList[q.i]
      p == [q EXCEPT !.tagStmts = @ + 1, !.writes = @ + 1,
                     !.i = @ + 1, !.pc = IF q.i = Len(q.tagList) THEN nextpc ELSE @]
  IN IF q.fault = "tag"
     THEN /\ \E err \in OtherErrors : Set(r, TagInsertCatch(p, err))
          /\ UNCHANGED store
     ELSE IF TagNameTaken(name)
     THEN /\ \E err \in UniqueViolations : Set(r, TagInsertCatch(p, err))
          /\ UNCHANGED store
     ELSE /\ tags' = tags \cup {[id |-> uuid(r, TagUuid(q.i)), name |-> name]}
          /\ Set(r, p)
          /\ UNCHANGED <<articles, articles_tags, favorites>>

\* tags = await db("tags").select().whereIn("name", tags.map(t => t.name))
TagSelect(r, nextpc) ==
  LET q == reqs[r]
  IN /\ Set(r, [q EXCEPT !.tags = {t \in tags : t.name \in Range(q.tagList)},
                         !.pc = nextpc])
     /\ UNCHANGED store

\* relations = tags.map(t => ({ id: uuid(), tag: t.id, article: article.id }))
Relations(r, id) ==
  {[id |-> uuid(r, RelationUuid(t.name)), tag |-> t.id, article |-> id] : t \in reqs[r].tags}

\* a second attempt that is repeated when it collides
RetryCatch_again(q, err) == [q EXCEPT !.tagStmts = 0]

\* the second insert or update is not in a try block: its error ends the request
RetryCatch(q, err) == Fail(q, 500, "Error", "", "", err)

\* a retry that keeps the slug that has just collided
InsertCatch_sameSlug(q, err, x) ==
  [q EXCEPT !.pc = IF q.kind = "create" THEN "post_retry" ELSE "put_retry"]

\* catch (err) { ctx.assert(unique violation, err); slug = slug + "-" + uuid().substr(-6) }
InsertCatch(q, err, x) ==
  IF IsUniqueViolation(err)
  THEN [q EXCEPT !.newArticle.slug = WithSuffix(@, x),
                 !.pc = IF q.kind = "create" THEN "post_retry" ELSE "put_retry"]
  ELSE Fail(q, 500, "Error", "", "", err)

(***************************************************************************)
(* post: create an article                                                 *)
(***************************************************************************)
\* ctx.body = { article } with favorited and author.following set to false
post_body(q) ==
  Ended([q EXCEPT !.body = [q.newArticle EXCEPT !.favorited = FALSE, !.following = FALSE,
                                                !.authorObj = "picked",
                                                !.tagList = Range(q.tagList)],
                  !.pc = "done"])

\* if (tags && tags.length) { ... }
post_afterInsert(q) ==
  IF Len(q.tagList) > 0 THEN [q EXCEPT !.pc = "post_tags", !.i = 1] ELSE post_body(q)

post(r) ==
  LET q == reqs[r]
      a == [NoArticle EXCEPT !.id = uuid(r, 1), !.author = q.user, !.authorObj = "id",
                             !.title = q.fields.title, !.body = q.fields.body,
                             !.description = q.fields.description,
                             \* the validated object keeps the caller's favoritesCount
                             !.favorites_count = IF "favoritesCount" \in q.fields.has
                                                 THEN q.fields.favoritesCount ELSE 0,
                             !.slug = slug(q.fields.title)]
      list == IF "tagList" \in q.fields.has THEN q.fields.tagList ELSE <<>>
      p == [q EXCEPT !.newArticle = a, !.tagList = list, !.attempts = 1, !.writes = @ + 1]
  IN /\ q.pc = "post"
     /\ IF ~ValidArticle(q.fields) \/ \E n \in Range(list) : ~ValidTag(n)
        THEN Set(r, Fail(q, 422, "ValidationError", "", "", NoError)) /\ UNCHANGED store
        ELSE IF q.fault = "article"
        THEN /\ \E err \in OtherErrors, x \in Suffixes : Set(r, InsertCatch(p, err, x))
             /\ UNCHANGED store
        ELSE IF SlugTaken(a.slug, a.id)
        THEN /\ \E err \in UniqueViolations, x \in Suffixes : Set(r, InsertCatch(p, err, x))
             /\ UNCHANGED store
        ELSE /\ articles' = articles \cup {Row(a)}
             /\ Set(r, post_afterInsert(p))
             /\ UNCHANGED <<tags, articles_tags, favorites>>

\* the insert of the catch block, with the suffixed slug
post_retry(r) ==
  LET q == reqs[r]
      p == [q EXCEPT !.attempts = @ + 1, !.writes = @ + 1]
  IN /\ q.pc = "post_retry"
     /\ IF SlugTaken(q.newArticle.slug, q.newArticle.id)
        THEN /\ \E err \in UniqueViolations : Set(r, RetryCatch(p, err))
             /\ UNCHANGED store
        ELSE /\ articles' = articles \cup {Row(q.newArticle)}
             /\ Set(r, post_afterInsert(p))
             /\ UNCHANGED <<tags, articles_tags, favorites>>

post_tags(r) == reqs[r].pc = "post_tags" /\ TagInsert(r, "post_tags_select")

post_tags_select(r) == reqs[r].pc = "post_tags_select" /\ TagSelect(r, "post_relations")

\* await db("articles_tags").insert(relations)
post_relations(r) ==
  LET q == reqs[r]
  IN /\ q.pc = "post_relations"
     /\ articles_tags' = articles_tags \cup Relations(r, q.newArticle.id)
     /\ Set(r, post_body([q EXCEPT !.tagStmts = @ + 1, !.writes = @ + 1]))
     /\ UNCHANGED <<articles, tags, favorites>>

(***************************************************************************)
(* put: update an article                                                  *)
(***************************************************************************)
\* _.difference(array, ...values): the elements of array that are in none of values
difference(array, values) ==
  LET keep == {k \in DOMAIN array : \A v \in Range(values) : array[k] \notin Range(v)}
      F[k \in 0..Len(array)] ==
        IF k = 0 THEN <<>> ELSE IF k \in keep THEN Append(F[k - 1], array[k]) ELSE F[k - 1]
  IN F[Len(array)]

\* the ownership check left out
OwnedByAnyone(q) == TRUE

\* article.author.id === ctx.state.user.id
OwnedByUser(q) == q.article.author = q.user

NotOwned(q) == Fail(q, 422, "ValidationError", "article", "not owned by user", NoError)

\* db("articles").update(_.pick(newArticle, [title, slug, body, description])).where({ id })
Update(a) ==
  {IF x.id = a.id
   THEN [x EXCEPT !.title = a.title, !.slug = a.slug, !.body = a.body,
                  !.description = a.description]
   ELSE x : x \in articles}

\* the update collides when the row is there and another row has the slug
UpdateCollides(a) == (\E x \in articles : x.id = a.id) /\ SlugTaken(a.slug, a.id)

\* newArticle.author = ctx.params.author; newArticle.favorited = article.favorited;
\* ctx.body = { article: newArticle }
put_body(q) ==
  Ended(bySlug_afterNext(
    [q EXCEPT !.body = [q.newArticle EXCEPT
                          !.authorObj = "params", !.favorited = q.article.favorited,
                          !.tagList = IF "tagList" \in q.fields.has
                                      THEN Range(q.fields.tagList) ELSE @],
              !.pc = "done"]))

\* an empty tagList taken for no tagList
put_afterUpdate_noClear(q) ==
  IF "tagList" \in q.fields.has /\ Len(q.fields.tagList) > 0
  THEN [q EXCEPT !.pc = "put_tags_del"]
  ELSE put_body(q)

\* the two ifs on fields.tagList after the update
put_afterUpdate(q) ==
  IF "tagList" \in q.fields.has /\ Len(q.fields.tagList) = 0
  THEN [q EXCEPT !.pc = "put_clear"]
  ELSE IF "tagList" \in q.fields.has /\ Len(q.fields.tagList) > 0
  THEN IF Len(difference(SetToSeq(q.article.tagList), <<>>)) # 0
          \/ Len(difference(q.fields.tagList, <<>>)) # 0
       THEN [q EXCEPT !.pc = "put_tags_del"]
       ELSE put_body(q)
  ELSE put_body(q)

put(r) ==
  LET q == reqs[r]
      f == q.fields
      \* Object.assign({}, article, fields)
      \* newArticle.author = newArticle.author.id
      m == [q.article EXCEPT
              !.authorObj = "id",
              !.title = IF "title" \in f.has THEN f.title ELSE @,
              !.body = IF "body" \in f.has THEN f.body ELSE @,
              !.description = IF "description" \in f.has THEN f.description ELSE @]
      \* if (fields.title) newArticle.slug = slug(newArticle.title)
      a == [m EXCEPT !.slug = IF "title" \in f.has /\ f.title # <<>> THEN slug(m.title) ELSE @]
      p == [q EXCEPT !.newArticle = a, !.attempts = 1, !.writes = @ + 1]
  IN /\ q.pc = "next" /\ q.kind = "update"
     /\ IF ~OwnedByUser(q)
        THEN Set(r, NotOwned(q)) /\ UNCHANGED store
        ELSE IF ~ValidArticle(m)
        THEN Set(r, Fail(q, 422, "ValidationError", "", "", NoError)) /\ UNCHANGED store
        ELSE IF q.fault = "article"
        THEN /\ \E err \in OtherErrors, x \in Suffixes : Set(r, InsertCatch(p, err, x))
             /\ UNCHANGED store
        ELSE IF UpdateCollides(a)
        THEN /\ \E err \in UniqueViolations, x \in Suffixes : Set(r, InsertCatch(p, err, x))
             /\ UNCHANGED store
        ELSE /\ articles' = Update(a)
             /\ Set(r, put_afterUpdate(p))
             /\ UNCHANGED <<tags, articles_tags, favorites>>

\* the update of the catch block, with the suffixed slug
put_retry(r) ==
  LET q == reqs[r]
      p == [q EXCEPT !.attempts = @ + 1, !.writes = @ + 1]
  IN /\ q.pc = "put_retry"
     /\ IF UpdateCollides(q.newArticle)
        THEN /\ \E err \in UniqueViolations : Set(r, RetryCatch(p, err))
             /\ UNCHANGED store
        ELSE /\ articles' = Update(q.newArticle)
             /\ Set(r, put_afterUpdate(p))
             /\ UNCHANGED <<tags, articles_tags, favorites>>

\* fields.tagList is empty: await db("articles_tags").del().where({ article: article.id })
put_clear(r) ==
  LET q == reqs[r]
  IN /\ q.pc = "put_clear"
     /\ articles_tags' = {x \in articles_tags : x.article # q.article.id}
     /\ Set(r, put_body([q EXCEPT !.tagStmts = @ + 1, !.writes = @ + 1]))
     /\ UNCHANGED <<articles, tags, favorites>>

\* the delete of the replacement, then the validation of the new tags
put_tags_del(r) ==
  LET q == reqs[r]
      p == [q EXCEPT !.tagStmts = @ + 1, !.writes = @ + 1]
  IN /\ q.pc = "put_tags_del"
     /\ articles_tags' = {x \in articles_tags : x.article # q.article.id}
     /\ IF \E n \in Range(q.fields.tagList) : ~ValidTag(n)
        THEN Set(r, Fail(p, 422, "ValidationError", "", "", NoError))
        ELSE Set(r, [p EXCEPT !.tagList = q.fields.tagList, !.i = 1, !.pc = "put_tags"])
     /\ UNCHANGED <<articles, tags, favorites>>

put_tags(r) == reqs[r].pc = "put_tags" /\ TagInsert(r, "put_tags_select")

put_tags_select(r) == reqs[r].pc = "put_tags_select" /\ TagSelect(r, "put_relations")

\* await db("articles_tags").insert(relations)
put_relations(r) ==
  LET q == reqs[r]
  IN /\ q.pc = "put_relations"
     /\ articles_tags' = articles_tags \cup Relations(r, q.article.id)
     /\ Set(r, put_body([q EXCEPT !.tagStmts = @ + 1, !.writes = @ + 1]))
     /\ UNCHANGED <<articles, tags, favorites>>

(***************************************************************************)
(* del: delete an article                                                  *)
(***************************************************************************)
\* ctx.body = {}
del_body(q) == Ended(bySlug_afterNext([q EXCEPT !.pc = "done"]))

del_settled(q, stmt) ==
  LET p == [q EXCEPT !.pending = @ \ {stmt}, !.writes = @ + 1]
  IN IF p.pending = {} THEN del_body(p) ELSE p

del(r) ==
  LET q == reqs[r]
  IN /\ q.pc = "next" /\ q.kind = "delete"
     /\ IF ~OwnedByUser(q)
        THEN Set(r, NotOwned(q))
        ELSE Set(r, [q EXCEPT !.pending = {"favorites", "articles_tags", "articles"},
                              !.pc = "del"])
     /\ UNCHANGED store

\* db("favorites").del().where({ user: ctx.state.user.id, article: article.id })
del_favorites(r) ==
  LET q == reqs[r]
  IN /\ q.pc = "del" /\ "favorites" \in q.pending
     /\ favorites' = {f \in favorites : ~(f.user = q.user /\ f.article = q.article.id)}
     /\ Set(r, del_settled(q, "favorites"))
     /\ UNCHANGED <<articles, tags, articles_tags>>

\* a delete that also removes the tags the article was the last to reference
del_articles_tags_andTags(r) ==
  LET q == reqs[r]
      rest == {x \in articles_tags : x.article # q.article.id}
  IN /\ q.pc = "del" /\ "articles_tags" \in q.pending
     /\ articles_tags' = rest
     /\ tags' = {t \in tags : \E x \in rest : x.tag = t.id}
     /\ Set(r, del_settled(q, "articles_tags"))
     /\ UNCHANGED <<articles, favorites>>

\* db("articles_tags").del().where({ article: article.id })
del_articles_tags(r) ==
  LET q == reqs[r]
  IN /\ q.pc = "del" /\ "articles_tags" \in q.pending
     /\ articles_tags' = {x \in articles_tags : x.article # q.article.id}
     /\ Set(r, del_settled(q, "articles_tags"))
     /\ UNCHANGED <<articles, tags, favorites>>

\* db("articles").del().where({ id: article.id })
del_articles(r) ==
  LET q == reqs[r]
  IN /\ q.pc = "del" /\ "articles" \in q.pending
     /\ articles' = {a \in articles : a.id # q.article.id}
     /\ Set(r, del_settled(q, "articles"))
     /\ UNCHANGED <<tags, articles_tags, favorites>>

(***************************************************************************)
(* get and feed.get: the list reads.  The rows query joins every matching   *)
(* article with its tags and with the viewer's favorite and follower rows;  *)
(* the rows are then folded into one record per article.                    *)
(***************************************************************************)
UserIds(names) == {u \in Users : Username(u) \in names}

\* the andWhere clauses that get adds to the rows query and to the count query alike
Matches(a, query) ==
  /\ query.author # {} => a.author \in UserIds(query.author)
  /\ query.favorited # {} =>
        a.id \in {f.article : f \in {g \in favorites : g.user \in UserIds(query.favorited)}}
  /\ query.tag # {} =>
        a.id \in {x.article : x \in {y \in articles_tags :
                     y.tag \in {t.id : t \in {u \in tags : u.name \in query.tag}}}}

\* the left joins of one article: a side without a matching row yields one row of nulls
\* (NoId, "" and FALSE).  relation is the ArticleTag row a joined row comes from: two
\* ArticleTag rows of one tag give two rows that are alike in every selected column
JoinedRows(a, viewer, withFollowers) ==
  LET rel == {x \in articles_tags : x.article = a.id}
      tagSide == IF rel = {} THEN {[relation |-> NoId, tag_id |-> NoId, tag_name |-> ""]}
                 ELSE UNION {LET ts == {t \in tags : t.id = x.tag}
                             IN IF ts = {}
                                THEN {[relation |-> x.id, tag_id |-> NoId, tag_name |-> ""]}
                                ELSE {[relation |-> x.id, tag_id |-> t.id,
                                       tag_name |-> t.name] : t \in ts}
                             : x \in rel}
      favs == {f \in favorites : f.article = a.id /\ viewer # Anonymous /\ f.user = viewer}
      favSide == IF favs = {} THEN {NoId} ELSE {f.id : f \in favs}
      fols == {f \in followers : /\ withFollowers /\ f.user = a.author
                                 /\ viewer # Anonymous /\ f.follower = viewer}
      folSide == IF fols = {} THEN {FALSE} ELSE {TRUE}
  IN {[article |-> a, relation |-> t.relation, tag_id |-> t.tag_id, tag_name |-> t.tag_name,
       article_favorited |-> f, author_following |-> g] :
         t \in tagSide, f \in favSide, g \in folSide}

\* orderBy("articles.created_at", "desc"): an article inserted later is newer
Newer(x, y) == x.by > y.by \/ (x.by = y.by /\ x.n > y.n)

RECURSIVE OrderByCreatedAt(_)
OrderByCreatedAt(S) ==
  IF S = {} THEN <<>>
  ELSE LET a == CHOOSE a \in S : \A b \in S \ {a} : Newer(a.id, b.id)
       IN <<a>> \o OrderByCreatedAt(S \ {a})

RECURSIVE FlatRows(_, _, _)
FlatRows(as, viewer, withFollowers) ==
  IF as = <<>> THEN <<>>
  ELSE SetToSeq(JoinedRows(Head(as), viewer, withFollowers))
         \o FlatRows(Tail(as), viewer, withFollowers)

\* .limit(limit).offset(offset), on the joined rows
Page(rows, offset, limit) ==
  LET last == IF limit = NoLimit \/ offset + limit > Len(rows) THEN Len(rows)
              ELSE offset + limit
  IN SubSeq(rows, offset + 1, last)

\* the tag of a row joins the collection of its article unless the row has none or the
\* collection holds a tag of that id
AddTag(objects, w) ==
  IF w.tag_id = NoId \/ \E i \in DOMAIN objects : objects[i].id = w.tag_id THEN objects
  ELSE Append(objects, [id |-> w.tag_id, name |-> w.tag_name])

\* joinJs.map(rows, relationsMaps, "articleMap", "article_"): one record per article id,
\* in the order of the first row of each
RECURSIVE Fold(_, _)
Fold(rows, acc) ==
  IF rows = <<>> THEN acc
  ELSE LET w == Head(rows)
           at == {k \in DOMAIN acc : acc[k].id = w.article.id}
       IN IF at = {}
          THEN Fold(Tail(rows),
                    Append(acc, [NoArticle EXCEPT
                       !.id = w.article.id, !.slug = w.article.slug,
                       !.title = w.article.title, !.body = w.article.body,
                       !.description = w.article.description,
                       !.author = w.article.author, !.authorObj = "joined",
                       !.favorites_count = w.article.favorites_count,
                       !.favorited = (w.article_favorited # NoId),
                       !.following = w.author_following,
                       !.tagObjects = AddTag(<<>>, w)]))
          ELSE LET k == CHOOSE k \in at : TRUE
               IN Fold(Tail(rows),
                       [acc EXCEPT ![k].tagObjects = AddTag(@, w),
                                   ![k].favorited = @ \/ (w.article_favorited # NoId),
                                   ![k].following = @ \/ w.author_following])

\* .map(a => { a.tagList = a.tagList.map(t => t.name); ...; delete a.author.id; return a }),
\* following forced for the feed
Public(as, feed) ==
  [k \in DOMAIN as |-> [as[k] EXCEPT !.authorObj = "joined_noid",
                                     !.tagList = {t.name : t \in Range(as[k].tagObjects)},
                                     !.following = IF feed THEN TRUE ELSE @]]

\* countRes.count || countRes["count(*)"]
Or(x, y) == IF x.t = "undefined" \/ (x.t = "number" /\ x.v = 0) THEN y ELSE x
\* Number(v): a decimal string and a number give the number
Number(x) == IF x.t \in {"number", "string"} THEN Num(x.v) ELSE [t |-> "NaN", v |-> 0]

\* the engines' answers to count(): a count column holding a decimal string, or a
\* "count(*)" column holding a number
CountResults(n) == {[count |-> Str(n), countStar |-> Undefined],
                    [count |-> Undefined, countStar |-> Num(n)]}

\* getOne: ctx.body = { article: ctx.params.article }
getOne(r) ==
  LET q == reqs[r]
  IN /\ q.pc = "next" /\ q.kind = "read"
     /\ Set(r, Ended(bySlug_afterNext([q EXCEPT !.body = q.article, !.pc = "done"])))
     /\ UNCHANGED store

\* what follows the await Promise.all([articlesQuery, countQuery]) of get and feed.get
\* a resume that turns every row into a record of its own
get_resume_perRow(q) ==
  Ended([q EXCEPT !.articles = Public([k \in DOMAIN q.rows |-> Fold(<<q.rows[k]>>, <<>>)[1]],
                                      q.kind = "feed"),
                  !.articlesCount = Number(Or(q.countRes.count, q.countRes.countStar)),
                  !.pc = "done"])

get_resume(q) ==
  Ended([q EXCEPT !.articles = Public(Fold(q.rows, <<>>), q.kind = "feed"),
                  !.articlesCount = Number(Or(q.countRes.count, q.countRes.countStar)),
                  !.pc = "done"])

get_settled(q, stmt) ==
  LET p == [q EXCEPT !.pending = @ \ {stmt}]
  IN IF p.pending = {} THEN get_resume(p) ELSE p

\* get builds the two queries and issues them together
get(r) ==
  LET q == reqs[r]
  IN /\ q.pc = "get"
     /\ Set(r, [q EXCEPT !.pending = {"articlesQuery", "countQuery"}, !.pc = "get_all"])
     /\ UNCHANGED store

\* the rows of articlesQuery: filters, joins, order, then limit and offset
get_rows(q) ==
  LET found == {a \in articles : Matches(a, q.query)}
  IN Page(FlatRows(OrderByCreatedAt(found), q.user, TRUE), q.query.offset, q.query.limit)

get_articlesQuery(r) ==
  LET q == reqs[r]
      rows == get_rows(q)
  IN /\ q.pc = "get_all" /\ "articlesQuery" \in q.pending
     /\ Set(r, get_settled([q EXCEPT !.rows = rows], "articlesQuery"))
     /\ UNCHANGED store

\* a count query that the filters were not added to
get_countQuery_unfiltered(r) ==
  LET q == reqs[r]
  IN /\ q.pc = "get_all" /\ "countQuery" \in q.pending
     /\ \E res \in CountResults(Cardinality(articles)) :
           Set(r, get_settled([q EXCEPT !.countRes = res], "countQuery"))
     /\ UNCHANGED store

get_countQuery(r) ==
  LET q == reqs[r]
      found == {a \in articles : Matches(a, q.query)}
  IN /\ q.pc = "get_all" /\ "countQuery" \in q.pending
     /\ \E res \in CountResults(Cardinality(found)) :
           Set(r, get_settled([q EXCEPT !.countRes = res], "countQuery"))
     /\ UNCHANGED store

\* a feed that takes every user for a followed one
feed_get_everyone(r) ==
  LET q == reqs[r]
  IN /\ q.pc = "feed_get"
     /\ Set(r, [q EXCEPT !.followedIds = Users,
                         !.pending = {"articlesQuery", "countQuery"}, !.pc = "feed_all"])
     /\ UNCHANGED store

\* followedIds = await db("followers").pluck("user").where({ follower: user.id })
feed_get(r) ==
  LET q == reqs[r]
  IN /\ q.pc = "feed_get"
     /\ Set(r, [q EXCEPT !.followedIds = {f.user : f \in {g \in followers :
                                                            g.follower = q.user}},
                         !.pending = {"articlesQuery", "countQuery"}, !.pc = "feed_all"])
     /\ UNCHANGED store

\* the rows of the feed's first query: whereIn("articles.author", followedIds)
feed_rows(q) ==
  LET found == {a \in articles : a.author \in q.followedIds}
  IN Page(FlatRows(OrderByCreatedAt(found), q.user, FALSE), q.query.offset, q.query.limit)

feed_articlesQuery(r) ==
  LET q == reqs[r]
      rows == feed_rows(q)
  IN /\ q.pc = "feed_all" /\ "articlesQuery" \in q.pending
     /\ Set(r, get_settled([q EXCEPT !.rows = rows], "articlesQuery"))
     /\ UNCHANGED store

feed_countQuery(r) ==
  LET q == reqs[r]
      found == {a \in articles : a.author \in q.followedIds}
  IN /\ q.pc = "feed_all" /\ "countQuery" \in q.pending
     /\ \E res \in CountResults(Cardinality(found)) :
           Set(r, get_settled([q EXCEPT !.countRes = res], "countQuery"))
     /\ UNCHANGED store

(***************************************************************************)
(* Stores the program can be in when the requests arrive.                  *)
(***************************************************************************)
TitleA == <<"A", " ", "b">>
TitleA2 == <<"a", " ", " ", "B", "!">>
TitleB == <<"b">>
TitleA0 == <<"a", " ", "b", " ", "0", "0", "0", "0", "0", "0">>

SeedTag == [id |-> SeedTagId, name |-> "lorem"]
SeedArticle == [id |-> SeedArticleId, slug |-> slug(TitleB), title |-> TitleB, body |-> "b0",
                description |-> "d0", author |-> "u1", favorites_count |-> 0]
SeedArticle2 == [id |-> SeedArticleId2, slug |-> slug(TitleA0), title |-> TitleA0,
                 body |-> "b0", description |-> "d0", author |-> "u2",
                 favorites_count |-> 0]

\* an article of u1 tagged with the seeded tag and an untagged article of u2,
\* nobody's favorites yet
SeededStore ==
  /\ articles = {SeedArticle, SeedArticle2}
  /\ tags = {SeedTag}
  /\ articles_tags = {[id |-> SeedRelationId, tag |-> SeedTagId, article |-> SeedArticleId]}
  /\ favorites = {}

(***************************************************************************)
(* Favorite and unfavorite requests on one article, concurrently.          *)
(***************************************************************************)
FavKinds == {"favorite", "unfavorite"}

ArriveFavorite(r) ==
  \E k \in FavKinds, u \in Users : Arrive(r, k, u, SeedArticle.slug, NoFields)

\* among the other operations: both users favorite, u2 takes the favorite back
FavoriteRequests == {<<"favorite", "u1">>, <<"favorite", "u2">>, <<"unfavorite", "u2">>}

ArriveFavoriteOf(r) ==
  \E x \in FavoriteRequests : Arrive(r, x[1], x[2], SeedArticle.slug, NoFields)

FavInit ==
  /\ SeededStore
  /\ reqs = [r \in 1..MaxFavReqs |-> IdleReq]


FavNext ==
  \/ \E r \in Slots : ArriveFavorite(r)
  \/ \E r \in Slots : bySlug(r)
  \/ \E r \in Slots : bySlug_tagsRelations(r)
  \/ \E r \in Slots : bySlug_tagList(r)
  \/ \E r \in Slots : bySlug_favorites(r)
  \/ \E r \in Slots : favorite_post(r)
  \/ \E r \in Slots : favorite_post_insert(r)
  \/ \E r \in Slots : favorite_post_increment(r)
  \/ \E r \in Slots : favorite_del(r)
  \/ \E r \in Slots : favorite_del_delete(r)
  \/ \E r \in Slots : favorite_del_decrement(r)

SpecFav == FavInit /\ [][FavNext]_vars

(***************************************************************************)
(* The same requests executed serially: a request arrives only when no     *)
(* other one is in flight.                                                 *)
(***************************************************************************)
FavSerialArrive(r) == Quiescent /\ ArriveFavorite(r)

FavSerialNext ==
  \/ \E r \in Slots : FavSerialArrive(r)
  \/ \E r \in Slots : bySlug(r)
  \/ \E r \in Slots : bySlug_tagsRelations(r)
  \/ \E r \in Slots : bySlug_tagList(r)
  \/ \E r \in Slots : bySlug_favorites(r)
  \/ \E r \in Slots : favorite_post(r)
  \/ \E r \in Slots : favorite_post_insert(r)
  \/ \E r \in Slots : favorite_post_increment(r)
  \/ \E r \in Slots : favorite_del(r)
  \/ \E r \in Slots : favorite_del_delete(r)
  \/ \E r \in Slots : favorite_del_decrement(r)

SpecFavSerial == FavInit /\ [][FavSerialNext]_vars

(***************************************************************************)
(* All the operations, concurrently.                                       *)
(***************************************************************************)
Payload(title, list) ==
  [NoFields EXCEPT !.has = {"title", "body", "description", "tagList"}, !.title = title,
                   !.body = "b0", !.description = "d0", !.tagList = list]

\* two titles that normalize to the same slug, with a tag that is not in the store yet,
\* and a payload without a title
CreateFields ==
  {Payload(TitleA, <<"lorem", "dolor">>), Payload(TitleA2, <<"dolor">>),
   [NoFields EXCEPT !.has = {"body", "description"}, !.body = "b0", !.description = "d0"]}

\* u1 writes the articles that are created, updated and deleted; u2 is the user who
\* tries to update or delete an article of u1
ArriveCreate(r) == \E f \in CreateFields : Arrive(r, "create", "u1", <<>>, f)

UpdateRequests ==
  {<<"u1", SeedArticle.slug,
     [NoFields EXCEPT !.has = {"title", "tagList"}, !.title = TitleA, !.tagList = <<"dolor">>]>>,
   <<"u1", SeedArticle.slug, [NoFields EXCEPT !.has = {"tagList"}]>>,
   <<"u1", slug(TitleA), [NoFields EXCEPT !.has = {"tagList"}, !.tagList = <<"dolor">>]>>,
   <<"u2", SeedArticle.slug, [NoFields EXCEPT !.has = {"tagList"}]>>}

ArriveUpdate(r) == \E x \in UpdateRequests : Arrive(r, "update", x[1], x[2], x[3])

DeleteRequests ==
  {<<"u1", SeedArticle.slug>>, <<"u1", slug(TitleA)>>, <<"u2", SeedArticle.slug>>}

ArriveDelete(r) == \E x \in DeleteRequests : Arrive(r, "delete", x[1], x[2], NoFields)

Init ==
  /\ SeededStore
  /\ reqs = [r \in 1..MaxReqs |-> IdleReq]

Next ==
  \/ \E r \in Slots : ArriveCreate(r)
  \/ \E r \in Slots : ArriveUpdate(r)
  \/ \E r \in Slots : ArriveDelete(r)
  \/ \E r \in Slots : ArriveFavoriteOf(r)
  \/ \E r \in Slots : bySlug(r)
  \/ \E r \in Slots : bySlug_tagsRelations(r)
  \/ \E r \in Slots : bySlug_tagList(r)
  \/ \E r \in Slots : bySlug_favorites(r)
  \/ \E r \in Slots : post(r)
  \/ \E r \in Slots : post_retry(r)
  \/ \E r \in Slots : post_tags(r)
  \/ \E r \in Slots : post_tags_select(r)
  \/ \E r \in Slots : post_relations(r)
  \/ \E r \in Slots : put(r)
  \/ \E r \in Slots : put_retry(r)
  \/ \E r \in Slots : put_clear(r)
  \/ \E r \in Slots : put_tags_del(r)
  \/ \E r \in Slots : put_tags(r)
  \/ \E r \in Slots : put_tags_select(r)
  \/ \E r \in Slots : put_relations(r)
  \/ \E r \in Slots : del(r)
  \/ \E r \in Slots : del_favorites(r)
  \/ \E r \in Slots : del_articles_tags(r)
  \/ \E r \in Slots : del_articles(r)
  \/ \E r \in Slots : favorite_post(r)
  \/ \E r \in Slots : favorite_post_insert(r)
  \/ \E r \in Slots : favorite_post_increment(r)
  \/ \E r \in Slots : favorite_del(r)
  \/ \E r \in Slots : favorite_del_delete(r)
  \/ \E r \in Slots : favorite_del_decrement(r)

Spec == Init /\ [][Next]_vars

(***************************************************************************)
(* All the operations, one request at a time.                              *)
(***************************************************************************)
SerialArriveCreate(r) == Quiescent /\ ArriveCreate(r)
SerialArriveUpdate(r) == Quiescent /\ ArriveUpdate(r)
SerialArriveDelete(r) == Quiescent /\ ArriveDelete(r)
SerialArriveFavorite(r) == Quiescent /\ ArriveFavoriteOf(r)

SerialNext ==
  \/ \E r \in Slots : SerialArriveCreate(r)
  \/ \E r \in Slots : SerialArriveUpdate(r)
  \/ \E r \in Slots : SerialArriveDelete(r)
  \/ \E r \in Slots : SerialArriveFavorite(r)
  \/ \E r \in Slots : bySlug(r)
  \/ \E r \in Slots : bySlug_tagsRelations(r)
  \/ \E r \in Slots : bySlug_tagList(r)
  \/ \E r \in Slots : bySlug_favorites(r)
  \/ \E r \in Slots : post(r)
  \/ \E r \in Slots : post_retry(r)
  \/ \E r \in Slots : post_tags(r)
  \/ \E r \in Slots : post_tags_select(r)
  \/ \E r \in Slots : post_relations(r)
  \/ \E r \in Slots : put(r)
  \/ \E r \in Slots : put_retry(r)
  \/ \E r \in Slots : put_clear(r)
  \/ \E r \in Slots : put_tags_del(r)
  \/ \E r \in Slots : put_tags(r)
  \/ \E r \in Slots : put_tags_select(r)
  \/ \E r \in Slots : put_relations(r)
  \/ \E r \in Slots : del(r)
  \/ \E r \in Slots : del_favorites(r)
  \/ \E r \in Slots : del_articles_tags(r)
  \/ \E r \in Slots : del_articles(r)
  \/ \E r \in Slots : favorite_post(r)
  \/ \E r \in Slots : favorite_post_insert(r)
  \/ \E r \in Slots : favorite_post_increment(r)
  \/ \E r \in Slots : favorite_del(r)
  \/ \E r \in Slots : favorite_del_delete(r)
  \/ \E r \in Slots : favorite_del_decrement(r)

SpecSerial == Init /\ [][SerialNext]_vars

(***************************************************************************)
(* Creates and updates, one request at a time, on a store in which two      *)
(* articles have the same title: the one created later carries a suffix.    *)
(***************************************************************************)
MaxWriteReqs == 2

StoredSuffix == <<"0", "0", "0", "0", "0", "1">>
PlainArticle == [SeedArticle2 EXCEPT !.title = TitleA, !.slug = slug(TitleA)]
SuffixedArticle ==
  [SeedArticle EXCEPT !.title = TitleA, !.slug = WithSuffix(slug(TitleA), StoredSuffix)]

\* the suffixed article is tagged with the seeded tag
WriteInit ==
  /\ articles = {PlainArticle, SuffixedArticle}
  /\ tags = {SeedTag}
  /\ articles_tags = {[id |-> SeedRelationId, tag |-> SeedTagId, article |-> SeedArticleId]}
  /\ favorites = {}
  /\ reqs = [r \in 1..MaxWriteReqs |-> IdleReq]

\* payloads and the statement the store rejects: a payload that carries a counter, one
\* whose title is taken, one without tags
WriteCreates ==
  {<<[Payload(TitleB, <<"dolor">>) EXCEPT !.has = @ \cup {"favoritesCount"},
                                          !.favoritesCount = 5], "none">>,
   <<Payload(TitleA, <<"lorem">>), "none">>,
   <<Payload(TitleB, <<>>), "none">>,
   <<Payload(TitleB, <<"dolor">>), "article">>,
   <<Payload(TitleB, <<"dolor">>), "tag">>}

WriteArriveCreate(r) ==
  /\ Quiescent
  /\ \E x \in WriteCreates : ArriveFaulty(r, "create", "u1", <<>>, x[1], x[2])

\* updates of the suffixed article by its author: the stored tag list again, the stored
\* title again, an empty tag list, the body only, a new title with a new tag
WriteUpdates ==
  {<<[NoFields EXCEPT !.has = {"tagList"}, !.tagList = <<"lorem">>], "none">>,
   <<[NoFields EXCEPT !.has = {"title"}, !.title = TitleA], "none">>,
   <<[NoFields EXCEPT !.has = {"tagList"}], "none">>,
   <<[NoFields EXCEPT !.has = {"body"}, !.body = "b1"], "none">>,
   <<[NoFields EXCEPT !.has = {"title", "tagList"}, !.title = TitleB,
                      !.tagList = <<"dolor">>], "none">>,
   <<[NoFields EXCEPT !.has = {"title", "tagList"}, !.title = TitleB,
                      !.tagList = <<"dolor">>], "article">>,
   <<[NoFields EXCEPT !.has = {"title", "tagList"}, !.title = TitleB,
                      !.tagList = <<"dolor">>], "tag">>}

WriteArriveUpdate(r) ==
  /\ Quiescent
  /\ \E x \in WriteUpdates : ArriveFaulty(r, "update", "u1", SuffixedArticle.slug, x[1], x[2])

WriteNext ==
  \/ \E r \in Slots : WriteArriveCreate(r)
  \/ \E r \in Slots : WriteArriveUpdate(r)
  \/ \E r \in Slots : bySlug(r)
  \/ \E r \in Slots : bySlug_tagsRelations(r)
  \/ \E r \in Slots : bySlug_tagList(r)
  \/ \E r \in Slots : bySlug_favorites(r)
  \/ \E r \in Slots : post(r)
  \/ \E r \in Slots : post_retry(r)
  \/ \E r \in Slots : post_tags(r)
  \/ \E r \in Slots : post_tags_select(r)
  \/ \E r \in Slots : post_relations(r)
  \/ \E r \in Slots : put(r)
  \/ \E r \in Slots : put_retry(r)
  \/ \E r \in Slots : put_clear(r)
  \/ \E r \in Slots : put_tags_del(r)
  \/ \E r \in Slots : put_tags(r)
  \/ \E r \in Slots : put_tags_select(r)
  \/ \E r \in Slots : put_relations(r)

SpecWrite == WriteInit /\ [][WriteNext]_vars

(***************************************************************************)
(* Reads among favorite and unfavorite requests, one request at a time, on  *)
(* a store in which the article of u1 has two tags and is favorited by u2.  *)
(***************************************************************************)
MaxReadReqs == 2

SeedTag2 == [id |-> [by |-> 0, n |-> 5], name |-> "dolor"]
SeedRelation2 == [id |-> [by |-> 0, n |-> 6], tag |-> SeedTag2.id, article |-> SeedArticleId]

SeedFavorite == [id |-> [by |-> 0, n |-> 7], user |-> "u2", article |-> SeedArticleId]

ReadInit ==
  /\ articles = {[SeedArticle EXCEPT !.favorites_count = 1], SeedArticle2}
  /\ tags = {SeedTag, SeedTag2}
  /\ articles_tags = {[id |-> SeedRelationId, tag |-> SeedTagId, article |-> SeedArticleId],
                      SeedRelation2}
  /\ favorites = {SeedFavorite}
  /\ reqs = [r \in 1..MaxReadReqs |-> IdleReq]

\* single reads: the author, a follower and a viewer without a session read the article
\* of u1; u1 reads the article of u2
ReadRequests ==
  {<<"u1", SeedArticle.slug>>, <<"u2", SeedArticle.slug>>, <<Anonymous, SeedArticle.slug>>,
   <<"u1", SeedArticle2.slug>>}

ArriveRead(r) ==
  /\ Quiescent
  /\ \E x \in ReadRequests : Arrive(r, "read", x[1], x[2], NoFields)

\* every combination of one author, one favorited and one tag filter, asked by u2
FilterCombinations ==
  {[NoQuery EXCEPT !.author = a, !.favorited = f, !.tag = t] :
     a \in {{}, {"noname"}}, f \in {{}, {"greg.p"}}, t \in {{}, {"lorem"}}}

\* filters with several values, and a page of one row
OtherQueries ==
  {[NoQuery EXCEPT !.author = {"noname", "greg.p"}, !.tag = {"lorem", "dolor"}],
   [NoQuery EXCEPT !.limit = 1]}

ListRequests ==
  {<<"u2", x>> : x \in FilterCombinations \cup OtherQueries}
    \cup {<<"u1", NoQuery>>, <<Anonymous, NoQuery>>}

ArriveList(r) ==
  /\ Quiescent
  /\ \E x \in ListRequests : ArriveQuery(r, "list", x[1], x[2])

ArriveFeed(r) ==
  /\ Quiescent
  /\ \E u \in Users : ArriveQuery(r, "feed", u, NoQuery)

ReadNext ==
  \/ \E r \in Slots : SerialArriveFavorite(r)
  \/ \E r \in Slots : ArriveRead(r)
  \/ \E r \in Slots : ArriveList(r)
  \/ \E r \in Slots : ArriveFeed(r)
  \/ \E r \in Slots : bySlug(r)
  \/ \E r \in Slots : bySlug_tagsRelations(r)
  \/ \E r \in Slots : bySlug_tagList(r)
  \/ \E r \in Slots : bySlug_favorites(r)
  \/ \E r \in Slots : getOne(r)
  \/ \E r \in Slots : get(r)
  \/ \E r \in Slots : get_articlesQuery(r)
  \/ \E r \in Slots : get_countQuery(r)
  \/ \E r \in Slots : feed_get(r)
  \/ \E r \in Slots : feed_articlesQuery(r)
  \/ \E r \in Slots : feed_countQuery(r)
  \/ \E r \in Slots : favorite_post(r)
  \/ \E r \in Slots : favorite_post_insert(r)
  \/ \E r \in Slots : favorite_post_increment(r)
  \/ \E r \in Slots : favorite_del(r)
  \/ \E r \in Slots : favorite_del_delete(r)
  \/ \E r \in Slots : favorite_del_decrement(r)

SpecRead == ReadInit /\ [][ReadNext]_vars

(***************************************************************************)
(* Every article operation, one request at a time, on the seeded store.     *)
(***************************************************************************)
AllNext ==
  \/ \E r \in Slots : SerialArriveCreate(r)
  \/ \E r \in Slots : SerialArriveUpdate(r)
  \/ \E r \in Slots : SerialArriveDelete(r)
  \/ \E r \in Slots : SerialArriveFavorite(r)
  \/ \E r \in Slots : ArriveRead(r)
  \/ \E r \in Slots : ArriveList(r)
  \/ \E r \in Slots : ArriveFeed(r)
  \/ \E r \in Slots : bySlug(r)
  \/ \E r \in Slots : bySlug_tagsRelations(r)
  \/ \E r \in Slots : bySlug_tagList(r)
  \/ \E r \in Slots : bySlug_favorites(r)
  \/ \E r \in Slots : getOne(r)
  \/ \E r \in Slots : get(r)
  \/ \E r \in Slots : get_articlesQuery(r)
  \/ \E r \in Slots : get_countQuery(r)
  \/ \E r \in Slots : feed_get(r)
  \/ \E r \in Slots : feed_articlesQuery(r)
  \/ \E r \in Slots : feed_countQuery(r)
  \/ \E r \in Slots : post(r)
  \/ \E r \in Slots : post_retry(r)
  \/ \E r \in Slots : post_tags(r)
  \/ \E r \in Slots : post_tags_select(r)
  \/ \E r \in Slots : post_relations(r)
  \/ \E r \in Slots : put(r)
  \/ \E r \in Slots : put_retry(r)
  \/ \E r \in Slots : put_clear(r)
  \/ \E r \in Slots : put_tags_del(r)
  \/ \E r \in Slots : put_tags(r)
  \/ \E r \in Slots : put_tags_select(r)
  \/ \E r \in Slots : put_relations(r)
  \/ \E r \in Slots : del(r)
  \/ \E r \in Slots : del_favorites(r)
  \/ \E r \in Slots : del_articles_tags(r)
  \/ \E r \in Slots : del_articles(r)
  \/ \E r \in Slots : favorite_post(r)
  \/ \E r \in Slots : favorite_post_insert(r)
  \/ \E r \in Slots : favorite_post_increment(r)
  \/ \E r \in Slots : favorite_del(r)
  \/ \E r \in Slots : favorite_del_delete(r)
  \/ \E r \in Slots : favorite_del_decrement(r)

SpecAll == Init /\ [][AllNext]_vars

(***************************************************************************)
(* The list and feed reads with limits, over stores that differ in the      *)
(* ArticleTag rows: no tag, one tag, two tags, and one tag twice (the rows  *)
(* that two updates of one article leave when their statements interleave). *)
(***************************************************************************)
MaxListReqs == 1

TwiceRelation == [id |-> [by |-> 0, n |-> 8], tag |-> SeedTagId, article |-> SeedArticleId]

ListInit ==
  /\ articles = {[SeedArticle EXCEPT !.favorites_count = 1], SeedArticle2}
  /\ tags = {SeedTag, SeedTag2}
  /\ articles_tags \in SUBSET
        {[id |-> SeedRelationId, tag |-> SeedTagId, article |-> SeedArticleId],
         SeedRelation2, TwiceRelation,
         [id |-> [by |-> 0, n |-> 9], tag |-> SeedTagId, article |-> SeedArticleId2]}
  /\ favorites = {SeedFavorite}
  /\ reqs = [r \in 1..MaxListReqs |-> IdleReq]

\* list reads of u2 with every limit, with and without a tag filter; a filter that no
\* article matches; a read without a session
LimitRequests ==
  {<<"u2", [NoQuery EXCEPT !.limit = l, !.tag = t]>> :
     l \in {NoLimit, 1, 2, 3}, t \in {{}, {"lorem"}}}
    \cup {<<"u2", [NoQuery EXCEPT !.author = {"nobody"}]>>, <<Anonymous, NoQuery>>}

ArriveLimited(r) ==
  /\ Quiescent
  /\ \E x \in LimitRequests : ArriveQuery(r, "list", x[1], x[2])

\* the feed of u2, who follows u1, and of u1, who follows nobody
ArriveLimitedFeed(r) ==
  /\ Quiescent
  /\ \E u \in Users, l \in {NoLimit, 1} :
        ArriveQuery(r, "feed", u, [NoQuery EXCEPT !.limit = l])

ListNext ==
  \/ \E r \in Slots : ArriveLimited(r)
  \/ \E r \in Slots : ArriveLimitedFeed(r)
  \/ \E r \in Slots : get(r)
  \/ \E r \in Slots : get_articlesQuery(r)
  \/ \E r \in Slots : get_countQuery(r)
  \/ \E r \in Slots : feed_get(r)
  \/ \E r \in Slots : feed_articlesQuery(r)
  \/ \E r \in Slots : feed_countQuery(r)

SpecList == ListInit /\ [][ListNext]_vars

(***************************************************************************)
(* Concurrent updates of the seeded article by its author, each of one      *)
(* field that the other leaves alone.                                       *)
(***************************************************************************)
BodyOnly == [NoFields EXCEPT !.has = {"body"}, !.body = "b1"]
DescriptionOnly == [NoFields EXCEPT !.has = {"description"}, !.description = "d1"]

ArriveFieldUpdate(r) ==
  \E f \in {BodyOnly, DescriptionOnly} : Arrive(r, "update", "u1", SeedArticle.slug, f)

FieldNext ==
  \/ \E r \in Slots : ArriveFieldUpdate(r)
  \/ \E r \in Slots : bySlug(r)
  \/ \E r \in Slots : bySlug_tagsRelations(r)
  \/ \E r \in Slots : bySlug_tagList(r)
  \/ \E r \in Slots : bySlug_favorites(r)
  \/ \E r \in Slots : put(r)

SpecField == Init /\ [][FieldNext]_vars

(***************************************************************************)
(* Favorites: the claims.                                                  *)
(***************************************************************************)
\* the users who have article id favorited, and its Favorite rows
FavoritedBy(id) == {f.user : f \in {g \in favorites : g.article = id}}
FavoriteRows(id) == {f \in favorites : f.article = id}

AllSucceeded == \A r \in Slots : reqs[r].pc \in {"idle", "done"}

\* C1: after any serial sequence of favorite and unfavorite requests the stored
\* counter of the article equals the number of distinct users who have it favorited.
C1_SerialCounterMatchesUsers ==
  Quiescent => \A a \in articles : a.favorites_count = Cardinality(FavoritedBy(a.id))

\* two users favorited the article and one of them took the favorite back
C1_Witness ==
  /\ Quiescent
  /\ \E r \in Slots : reqs[r].kind = "unfavorite" /\ reqs[r].pc = "done" /\ reqs[r].writes = 2
  /\ \E a \in articles : a.favorites_count = 1 /\ Cardinality(FavoritedBy(a.id)) = 1

\* C2: once all the concurrent favorite and unfavorite requests have completed
\* successfully, favorites_count equals the number of Favorite rows of the article.
C2_CounterMatchesRows ==
  (Quiescent /\ AllSucceeded) =>
     \A a \in articles : a.favorites_count = Cardinality(FavoriteRows(a.id))

\* C3: the favorites counter of every article is never negative.
C3_CounterNonNegative == \A a \in articles : a.favorites_count >= 0

\* the requested state already holds in the store when the handler runs
RequestedStateHolds(r) ==
  LET mine == {f \in favorites : f.user = reqs[r].user /\ f.article = reqs[r].article.id}
  IN \/ reqs[r].kind = "favorite" /\ mine # {}
     \/ reqs[r].kind = "unfavorite" /\ mine = {}

\* the article as the store holds it, seen by the user of request r
Current(r) ==
  LET a == CHOOSE a \in articles : a.id = reqs[r].article.id
  IN [reqs[r].article EXCEPT
        !.favorites_count = a.favorites_count,
        !.favorited = (\E f \in favorites : f.user = reqs[r].user /\ f.article = a.id)]

\* C4: a favorite of an already favorited article and an unfavorite of a not
\* favorited one (requests executed serially) issue no statement: the handler ends
\* at once, the store is unchanged and the article is returned as the store holds it.
C4_NoOpWhenStateHolds ==
  [][\A r \in Slots :
       (reqs[r].pc = "next" /\ reqs'[r].pc # "next" /\ RequestedStateHolds(r)) =>
          /\ reqs'[r].pc = "done"
          /\ reqs'[r].pending = {} /\ reqs'[r].writes = 0
          /\ store' = store
          /\ reqs'[r].body = Current(r)]_vars

\* both no-ops have happened: a repeated favorite and an unfavorite of nothing
C4_Witness ==
  /\ \E r \in Slots : /\ reqs[r].kind = "favorite" /\ reqs[r].pc = "done"
                      /\ reqs[r].writes = 0 /\ reqs[r].body.favorited
                      /\ reqs[r].body.favorites_count = 1
  /\ \E r \in Slots : /\ reqs[r].kind = "unfavorite" /\ reqs[r].pc = "done"
                      /\ reqs[r].writes = 0 /\ ~reqs[r].body.favorited
(***************************************************************************)
(* Create, update and delete: the claims.                                  *)
(***************************************************************************)
Creates == {r \in Slots : reqs[r].kind = "create" /\ ValidArticle(reqs[r].fields)}
Derived(r) == slug(reqs[r].fields.title)
Suffixed(sl, s) == \E x \in Suffixes : sl = WithSuffix(s, x)
\* the slug of the last insert or update statement of request r
LastSlug(r) == IF reqs[r].pc = "done" THEN reqs[r].body.slug ELSE reqs[r].newArticle.slug
\* no request has looked up the article that request r created
Untouched(r) == \A p \in Slots : reqs[p].article.id # uuid(r, 1)
Conflict(r) == reqs[r].pc = "failed" /\ IsUniqueViolation(reqs[r].failure.err)

\* C5, as claimed: two creates whose titles normalize to the same slug both succeed,
\* one with the plain derived slug and the other with that slug and a suffix.
C5_BothPersisted ==
  \A r1, r2 \in Creates :
     (r1 # r2 /\ Terminal(r1) /\ Terminal(r2) /\ Derived(r1) = Derived(r2)) =>
        /\ reqs[r1].pc = "done" /\ reqs[r2].pc = "done"
        /\ reqs[r1].body.slug # reqs[r2].body.slug
        /\ \/ reqs[r1].body.slug = Derived(r1) /\ Suffixed(reqs[r2].body.slug, Derived(r2))
           \/ reqs[r2].body.slug = Derived(r2) /\ Suffixed(reqs[r1].body.slug, Derived(r1))

\* C5, amended: a create whose first insert went through is persisted with the plain
\* derived slug; one whose first insert collided is persisted with that slug, "-" and
\* a suffix, or fails with the unique violation of the suffixed slug; no two stored
\* articles have the same slug.
C5_DistinctSlugsOrConflict ==
  /\ \A r \in Creates : Terminal(r) =>
        \/ /\ reqs[r].pc = "done" /\ reqs[r].attempts = 1
           /\ reqs[r].body.slug = Derived(r)
        \/ /\ reqs[r].pc = "done" /\ reqs[r].attempts = 2
           /\ Suffixed(reqs[r].body.slug, Derived(r))
        \/ /\ Conflict(r) /\ reqs[r].attempts = 2
           /\ Suffixed(reqs[r].newArticle.slug, Derived(r))
  /\ \A r \in Creates : (reqs[r].pc = "done" /\ Untouched(r)) =>
        \E a \in articles : a.id = uuid(r, 1) /\ a.slug = reqs[r].body.slug
  /\ \A a, b \in articles : a.id # b.id => a.slug # b.slug

\* two creates of the same derived slug are stored, one plain and one suffixed
C5_Witness ==
  \E r1, r2 \in Creates :
     /\ r1 # r2 /\ Derived(r1) = Derived(r2)
     /\ reqs[r1].pc = "done" /\ reqs[r2].pc = "done"
     /\ reqs[r1].body.slug = Derived(r1) /\ Suffixed(reqs[r2].body.slug, Derived(r2))
     /\ \E a, b \in articles : /\ a.id = uuid(r1, 1) /\ a.slug = reqs[r1].body.slug
                               /\ b.id = uuid(r2, 1) /\ b.slug = reqs[r2].body.slug

\* C6: create and update issue the article statement at most twice, the second time
\* with a suffixed slug; a unique violation on the second attempt fails the request,
\* which has then issued exactly those two statements and no tag or ArticleTag one.
C6_RetryOnce ==
  \A r \in Slots : reqs[r].kind \in {"create", "update"} =>
     /\ reqs[r].attempts <= 2
     /\ reqs[r].attempts = 2 =>
           "title" \in reqs[r].fields.has /\ Suffixed(LastSlug(r), Derived(r))
     /\ Conflict(r) =>
           reqs[r].attempts = 2 /\ reqs[r].writes = 2 /\ reqs[r].tagStmts = 0

\* an update that carries a tag list has collided twice
C6_Witness ==
  \E r \in Slots : /\ reqs[r].kind = "update" /\ Conflict(r)
                   /\ "tagList" \in reqs[r].fields.has /\ Len(reqs[r].fields.tagList) > 0
                   /\ reqs[r].attempts = 2

NewTagNames == TagNames \ {SeedTag.name}
\* request r has inserted its article and is past the slug handling
PastInsert(r) == ~(reqs[r].pc = "failed" /\ reqs[r].tagStmts = 0)
TagRows(n) == {t \in tags : t.name = n}

\* C7: two (concurrent) creates that carry the same new tag name both succeed, one
\* Tag row with the name exists, and each article has an ArticleTag row for it.
C7_OneTagRowBothReferenced ==
  \A r1, r2 \in Creates : \A n \in NewTagNames :
     (/\ r1 # r2 /\ Terminal(r1) /\ Terminal(r2) /\ PastInsert(r1) /\ PastInsert(r2)
      /\ n \in Range(reqs[r1].fields.tagList) \cap Range(reqs[r2].fields.tagList)) =>
        /\ reqs[r1].pc = "done" /\ reqs[r2].pc = "done"
        /\ Cardinality(TagRows(n)) = 1
        /\ \A r \in {r1, r2} : Untouched(r) =>
              \E x \in articles_tags, t \in TagRows(n) :
                 x.article = uuid(r, 1) /\ x.tag = t.id

\* both creates are done and the Tag row was inserted by the one that arrived later
C7_Witness ==
  \E r1, r2 \in Creates : \E n \in NewTagNames :
     /\ r1 < r2 /\ reqs[r1].pc = "done" /\ reqs[r2].pc = "done"
     /\ n \in Range(reqs[r1].fields.tagList) \cap Range(reqs[r2].fields.tagList)
     /\ \E t \in TagRows(n) : t.id.by = r2
     /\ \A r \in {r1, r2} : \E x \in articles_tags, t \in TagRows(n) :
           x.article = uuid(r, 1) /\ x.tag = t.id

\* C8: whenever no request is in flight, every ArticleTag row references an Article
\* row and a Tag row that exist.
C8_NoDanglingArticleTag ==
  Quiescent => \A x \in articles_tags : /\ \E a \in articles : a.id = x.article
                                        /\ \E t \in tags : t.id = x.tag

\* C9: after a successful delete (requests executed one at a time) no Article,
\* ArticleTag or Favorite row references the deleted article.
C9_NothingLeftAfterDelete ==
  \A r \in Slots : (reqs[r].kind = "delete" /\ reqs[r].pc = "done") =>
     /\ \A a \in articles : a.id # reqs[r].article.id
     /\ \A x \in articles_tags : x.article # reqs[r].article.id
     /\ \A f \in favorites : f.article # reqs[r].article.id

NotOwnedFailure ==
  [status |-> 422, name |-> "ValidationError", path |-> "article",
   errors |-> "not owned by user", err |-> NoError]

\* C10: an update or delete by a user who is not the author fails with the validation
\* error 'article': 'not owned by user', and neither its handler nor any other step of
\* the request writes to the store.
C10_NotOwnedNoWrite ==
  /\ [](\A r \in Slots : reqs[r].failure = NotOwnedFailure =>
           reqs[r].pc = "failed" /\ reqs[r].writes = 0)
  /\ [][\A r \in Slots :
          (/\ reqs[r].pc = "next" /\ reqs[r].kind \in {"update", "delete"}
           /\ reqs[r].article.author # reqs[r].user /\ reqs'[r] # reqs[r]) =>
             /\ reqs'[r].pc = "failed" /\ reqs'[r].failure = NotOwnedFailure
             /\ reqs'[r].writes = 0 /\ store' = store]_vars

\* u2 has tried to update and to delete an article of u1
C10_Witness ==
  /\ \E r \in Slots : reqs[r].kind = "update" /\ reqs[r].failure = NotOwnedFailure
  /\ \E r \in Slots : reqs[r].kind = "delete" /\ reqs[r].failure = NotOwnedFailure
  /\ articles = {SeedArticle, SeedArticle2}

(***************************************************************************)
(* Updates and creates, one request at a time: the claims.                 *)
(***************************************************************************)
\* the handler of request r runs: bySlug has read the article and its tag list
InHandler(r) ==
  InFlight(r) /\ reqs[r].pc \notin {"bySlug", "bySlug_tagsRelations", "bySlug_tagList",
                                    "bySlug_favorites"}

SuppliesTagList(r) == reqs[r].kind = "update" /\ "tagList" \in reqs[r].fields.has

\* C11: an update whose tagList has the content of the article's stored tag set issues
\* no delete and no insert on ArticleTag rows: the rows, their identities included, are
\* unchanged by the request.
C11_SameTagsNoRewrite ==
  [][\A r \in Slots :
       (/\ InHandler(r) /\ SuppliesTagList(r)
        /\ Range(reqs[r].fields.tagList) = reqs[r].article.tagList) =>
          articles_tags' = articles_tags]_vars

\* C12: a successful update that supplies an empty tagList leaves the article with no
\* ArticleTag rows, and an update that supplies no tagList leaves the ArticleTag rows
\* as they are.
C12_EmptyClearsAbsentKeeps ==
  [][\A r \in Slots :
       /\ (InHandler(r) /\ reqs[r].kind = "update" /\ "tagList" \notin reqs[r].fields.has) =>
             articles_tags' = articles_tags
       /\ (/\ InHandler(r) /\ SuppliesTagList(r) /\ reqs[r].fields.tagList = <<>>
           /\ reqs'[r].pc = "done") =>
             \A x \in articles_tags' : x.article # reqs[r].article.id]_vars

\* an update without a tagList returned the article with its tag, and the update with
\* the empty tagList after it has removed the rows
C12_Witness ==
  \E r1, r2 \in Slots :
     /\ r1 < r2 /\ reqs[r1].kind = "update" /\ reqs[r2].kind = "update"
     /\ reqs[r1].pc = "done" /\ reqs[r2].pc = "done"
     /\ "tagList" \notin reqs[r1].fields.has /\ reqs[r1].body.tagList = {SeedTag.name}
     /\ "tagList" \in reqs[r2].fields.has /\ reqs[r2].fields.tagList = <<>>
     /\ reqs[r2].tagStmts = 1
     /\ articles_tags = {}

(***************************************************************************)
(* Tag association under concurrency: the claims.                          *)
(***************************************************************************)
\* the names of the tags that the ArticleTag rows of article id reference
StoredTagNames(id) ==
  {t.name : t \in {u \in tags : \E x \in articles_tags : x.article = id /\ x.tag = u.id}}

\* the article that request r creates or updates
Target(r) == IF reqs[r].kind = "create" THEN uuid(r, 1) ELSE reqs[r].article.id

TagWriters == {r \in Slots : /\ reqs[r].kind \in {"create", "update"}
                             /\ "tagList" \in reqs[r].fields.has
                             /\ Len(reqs[r].fields.tagList) > 0}

\* C13: once create and update requests with a non-empty tagList have all completed,
\* under any interleaving, the ArticleTag rows of an article they wrote reference the
\* tag names of one of them, and no two rows carry the same (article, tag) pair.
C13_TagsOfOneRequest ==
  (\A r \in Slots : reqs[r].pc = "idle" \/ (reqs[r].pc = "done" /\ r \in TagWriters)) =>
     \A a \in articles :
        /\ \A x, y \in articles_tags :
              (x.article = a.id /\ y.article = a.id /\ x.tag = y.tag) => x = y
        /\ LET W == {r \in TagWriters : reqs[r].pc = "done" /\ Target(r) = a.id}
           IN W # {} => \E r \in W : StoredTagNames(a.id) = Range(reqs[r].fields.tagList)

(***************************************************************************)
(* Reads: the claims.                                                      *)
(***************************************************************************)
\* what a returned record says of the article, the viewer's flags left out
Content(rec) ==
  [id |-> rec.id, slug |-> rec.slug, title |-> rec.title, body |-> rec.body,
   description |-> rec.description, author |-> rec.author,
   favorites_count |-> rec.favorites_count, tagList |-> rec.tagList]

StoredContent(a) ==
  [id |-> a.id, slug |-> a.slug, title |-> a.title, body |-> a.body,
   description |-> a.description, author |-> a.author,
   favorites_count |-> a.favorites_count, tagList |-> StoredTagNames(a.id)]

HasFavorite(viewer, id) ==
  viewer # Anonymous /\ \E f \in favorites : f.user = viewer /\ f.article = id

HasFollower(viewer, author) ==
  viewer # Anonymous /\ \E f \in followers : f.user = author /\ f.follower = viewer

\* the record shows the stored article, with the flags of the viewer's own rows
ViewOf(rec, viewer) ==
  \E a \in articles : /\ a.id = rec.id /\ Content(rec) = StoredContent(a)
                      /\ rec.favorited = HasFavorite(viewer, a.id)
                      /\ rec.following = HasFollower(viewer, a.author)

Completes(r) == reqs[r].pc # "done" /\ reqs'[r].pc = "done"

Unpaged(r) ==
  reqs[r].kind = "list" /\ reqs[r].query.offset = 0 /\ reqs[r].query.limit = NoLimit

\* C15: for every combination of the author, favorited and tag filters over a fixed
\* store, the articlesCount of the list read is the number of distinct articles that
\* the read returns with the same filters, offset 0 and no limit.
C15_CountIsNumberOfArticles ==
  \A r \in Slots : (Unpaged(r) /\ reqs[r].pc = "done") =>
     /\ reqs[r].articlesCount = Num(Len(reqs[r].articles))
     /\ \A j, k \in DOMAIN reqs[r].articles :
           reqs[r].articles[j].id = reqs[r].articles[k].id => j = k

\* the three filters together select the article with two tags, and no filter selects
\* both articles
C15_Witness ==
  /\ \E r \in Slots : /\ Unpaged(r) /\ reqs[r].pc = "done"
                      /\ reqs[r].query.author # {} /\ reqs[r].query.favorited # {}
                      /\ reqs[r].query.tag # {}
                      /\ reqs[r].articlesCount = Num(1)
                      /\ reqs[r].articles[1].tagList = {"lorem", "dolor"}
  /\ \E r \in Slots : /\ Unpaged(r) /\ reqs[r].pc = "done" /\ reqs[r].query = NoQuery
                      /\ reqs[r].articlesCount = Num(2)

(***************************************************************************)
(* Create: what it returns and what it does with a store error.            *)
(***************************************************************************)
\* C16: every successful create persists the article and returns it with favorited
\* false, author.following false and a favorites count of 0, whatever the payload held.
C16_CreateReturnsDefaults ==
  \A r \in Slots : (reqs[r].kind = "create" /\ reqs[r].pc = "done") =>
     /\ ~reqs[r].body.favorited /\ ~reqs[r].body.following
     /\ reqs[r].body.favorites_count = 0
     /\ \E a \in articles : a.id = uuid(r, 1) /\ a.favorites_count = 0

\* the statements a mutation has issued when its first tag insert has been issued:
\* the article write(s), for an update the removal of the ArticleTag rows, the tag insert
IssuedAtFirstTagInsert(r) ==
  reqs[r].attempts + (IF reqs[r].kind = "update" THEN 1 ELSE 0) + 1

\* C17: a create or update whose article write or tag insert fails with a store error
\* that is not a unique violation fails with that error: no write with a suffixed slug
\* follows, and no later statement of the mutation is issued.
C17_OtherErrorIsFatal ==
  \A r \in Slots :
     /\ (reqs[r].fault = "article" /\ reqs[r].writes > 0) =>
           /\ reqs[r].pc = "failed" /\ reqs[r].failure.err \in OtherErrors
           /\ reqs[r].failure.status = 500
           /\ reqs[r].attempts = 1 /\ reqs[r].writes = 1 /\ reqs[r].tagStmts = 0
           /\ reqs[r].newArticle.slug = slug(reqs[r].fields.title)
     /\ (reqs[r].fault = "tag" /\ reqs[r].writes >= IssuedAtFirstTagInsert(r)) =>
           /\ reqs[r].pc = "failed" /\ reqs[r].failure.err \in OtherErrors
           /\ reqs[r].failure.status = 500
           /\ reqs[r].writes = IssuedAtFirstTagInsert(r)
           /\ \A name \in TagNames :
                 /\ \A k \in 1..2 : \A t \in tags : t.id # uuid(r, TagUuid(k))
                 /\ \A at \in articles_tags : at.id # uuid(r, RelationUuid(name))

C17_Witness ==
  \E r, s \in Slots :
     /\ reqs[r].kind = "create" /\ reqs[r].fault = "article" /\ reqs[r].pc = "failed"
     /\ reqs[r].failure.err = [errno |-> 1, code |-> 0]
     /\ reqs[s].kind = "update" /\ reqs[s].fault = "tag" /\ reqs[s].pc = "failed"
     /\ reqs[s].failure.err = [errno |-> 0, code |-> 23503]
     /\ reqs[s].writes = 3

(***************************************************************************)
(* Tags are append-only.                                                   *)
(***************************************************************************)
Unreferenced(t) == \A x \in articles_tags : x.tag # t.id

\* C18: no step of a create, update or delete removes or changes a Tag row: the set of
\* Tag rows only grows, also when an article stops referencing a tag or is deleted.
C18_TagsOnlyGrow == [][tags \subseteq tags']_vars

C18_Witness ==
  /\ \E r \in Slots : reqs[r].kind = "delete" /\ reqs[r].pc = "done"
  /\ \E r \in Slots : reqs[r].kind = "update" /\ reqs[r].pc = "done" /\ reqs[r].tagStmts > 0
  /\ \E t \in tags : t.name = "lorem" /\ Unreferenced(t)

(***************************************************************************)
(* Update: the slug.                                                       *)
(***************************************************************************)
\* the update supplies no title, or the title the article is stored with
KeepsTitle(r, a) == "title" \notin reqs[r].fields.has \/ reqs[r].fields.title = a.title

\* C19: an update leaves the stored slug of its article unchanged unless the request
\* changes the title; an update that supplies the stored title again keeps the slug,
\* also when that slug carries a collision suffix.
C19_SlugKeptUnlessTitleChanged ==
  [][\A r \in Slots : (reqs[r].kind = "update" /\ InFlight(r)) =>
        \A a \in articles : (a.id = reqs[r].article.id /\ KeepsTitle(r, a)) =>
           \E b \in articles' : b.id = a.id /\ b.slug = a.slug]_vars

(***************************************************************************)
(* What a response shows of the author.                                    *)
(***************************************************************************)
\* the id in the author object of a returned article: the author object is the one of
\* the route parameters, the row joined to the article, or the bare author column
AuthorIdIn(rec, q) ==
  CASE rec.authorObj = "params" -> q.author.id
    [] rec.authorObj \in {"id", "joined"} -> rec.author
    [] OTHER -> ""

\* C20: no response of an article operation (list, feed, single read, create, update,
\* favorite, unfavorite) holds the author's internal id in the author object of a
\* returned article.
C20_NoAuthorIdInResponse ==
  \A r \in Slots : reqs[r].pc = "done" =>
     /\ AuthorIdIn(reqs[r].body, reqs[r]) = ""
     /\ \A k \in DOMAIN reqs[r].articles : AuthorIdIn(reqs[r].articles[k], reqs[r]) = ""

C20_Witness ==
  \E r, s \in Slots :
     /\ reqs[r].pc = "done" /\ reqs[r].kind \in {"read", "update", "favorite"}
     /\ reqs[r].body.authorObj = "params" /\ reqs[r].body.author \in Users
     /\ reqs[s].pc = "done" /\ reqs[s].kind \in {"list", "feed"}
     /\ reqs[s].articles # <<>>

(***************************************************************************)
(* The list and feed reads: rows to records.                               *)
(***************************************************************************)
\* the joined rows the read of r gets from the store as it is
RowsOf(r) == IF reqs[r].kind = "list" THEN get_rows(reqs[r]) ELSE feed_rows(reqs[r])

RowsOfArticle(rows, id) == {k \in DOMAIN rows : rows[k].article.id = id}

ListRead(r) == reqs[r].kind \in {"list", "feed"}

\* C21: the list and feed reads return exactly one record per distinct article id among
\* the joined rows; its tagList is the duplicate-free set of the tag names of the
\* article's rows (empty when every tag column is null) and it is favorited iff one of
\* its rows has a favorite marker; no rows give an empty sequence of articles.
C21_OneRecordPerArticle ==
  [][\A r \in Slots : (ListRead(r) /\ Completes(r)) =>
       LET rows == RowsOf(r)
           out == reqs'[r].articles
       IN /\ Len(out) = Cardinality({rows[k].article.id : k \in DOMAIN rows})
          /\ \A j, k \in DOMAIN out : out[j].id = out[k].id => j = k
          /\ \A k \in DOMAIN out :
                LET mine == RowsOfArticle(rows, out[k].id)
                IN /\ mine # {}
                   /\ out[k].tagList = {rows[j].tag_name : j \in mine} \ {""}
                   /\ Len(out[k].tagObjects) = Cardinality(out[k].tagList)
                   /\ out[k].favorited <=> \E j \in mine : rows[j].article_favorited # NoId
          /\ rows = <<>> => out = <<>>]_vars

\* a read that folds four rows of two articles, one of them tagged twice with one tag,
\* and a read that gets no row
C21_Witness ==
  /\ \E x \in articles_tags : x = TwiceRelation
  /\ \E r \in Slots :
        /\ reqs[r].kind = "list" /\ reqs[r].pc = "done" /\ reqs[r].query = NoQuery
        /\ reqs[r].user = "u2" /\ Len(reqs[r].articles) = 2
        /\ \E k \in 1..2 : /\ reqs[r].articles[k].tagList = {"lorem", "dolor"}
                           /\ reqs[r].articles[k].favorited
        /\ \E k \in 1..2 : /\ reqs[r].articles[k].tagList = {}
                           /\ ~reqs[r].articles[k].favorited

\* the users the viewer follows
FollowedBy(viewer) == {f.user : f \in {g \in followers : g.follower = viewer}}

\* C22: the feed of a viewer holds only articles whose author the viewer follows, each
\* with author.following true, and its articlesCount is the number of stored articles
\* whose author the viewer follows.
C22_FeedOfFollowedAuthors ==
  [][\A r \in Slots : (reqs[r].kind = "feed" /\ Completes(r)) =>
       LET mine == {a \in articles : a.author \in FollowedBy(reqs[r].user)}
           out == reqs'[r].articles
       IN /\ \A k \in DOMAIN out : /\ out[k].author \in FollowedBy(reqs[r].user)
                                   /\ out[k].following
                                   /\ \E a \in mine : a.id = out[k].id
          /\ reqs'[r].articlesCount = Num(Cardinality(mine))]_vars

\* u2, who follows u1, gets the seeded article and one that u1 has created since
C22_Witness ==
  \E r \in Slots :
     /\ reqs[r].kind = "feed" /\ reqs[r].pc = "done" /\ reqs[r].user = "u2"
     /\ Len(reqs[r].articles) = 2 /\ reqs[r].articlesCount = Num(2)
     /\ \A k \in 1..2 : reqs[r].articles[k].following /\ reqs[r].articles[k].author = "u1"

Min(x, y) == IF x < y THEN x ELSE y

\* C23: a list read with offset 0 and limit L over a store in which M articles match the
\* filters returns min(L, M) records, each with all the tag names stored for its article.
C23_LimitCountsArticles ==
  [][\A r \in Slots :
       (reqs[r].kind = "list" /\ Completes(r) /\ reqs[r].query.offset = 0
          /\ reqs[r].query.limit # NoLimit) =>
       LET M == Cardinality({a \in articles : Matches(a, reqs[r].query)})
           out == reqs'[r].articles
       IN /\ Len(out) = Min(reqs[r].query.limit, M)
          /\ \A k \in DOMAIN out : out[k].tagList = StoredTagNames(out[k].id)]_vars

(***************************************************************************)
(* Update: failure and concurrency.                                        *)
(***************************************************************************)
Fails(r) == reqs[r].pc # "failed" /\ reqs'[r].pc = "failed"

\* C24: an update by the author that ends in failure leaves the row of the article and
\* its ArticleTag rows as they were when the request read them.
C24_FailedUpdateWritesNothing ==
  [][\A r \in Slots :
       (reqs[r].kind = "update" /\ Fails(r) /\ reqs[r].article.id # NoId
          /\ reqs[r].user = reqs[r].article.author) =>
       /\ Row(reqs[r].article) \in articles'
       /\ {x \in articles_tags' : x.article = reqs[r].article.id} = reqs[r].tagsRelations]_vars

\* C25: when an update of the body only and an update of the description only, both of
\* one article by its author, have both succeeded, the stored article carries both
\* changes, however their store statements interleaved.
C25_DisjointUpdatesBothKept ==
  ( /\ \A r \in Slots : reqs[r].kind = "update" /\ reqs[r].pc = "done"
    /\ \E r \in Slots : reqs[r].fields = BodyOnly
    /\ \E r \in Slots : reqs[r].fields = DescriptionOnly )
  => \E a \in articles : /\ a.id = SeedArticleId
                         /\ a.body = BodyOnly.body
                         /\ a.description = DescriptionOnly.description

====
